---- MODULE Spec2Model ----
(***************************************************************************)
(* A model of squish (squish.js): the one-shot operations compress,        *)
(* decompress, gzip, gunzip, deflate, inflate, deflateRaw, inflateRaw, the *)
(* streaming forms compressStream / decompressStream and their wrappers,   *)
(* and streamFile.  The library is an adapter over the platform's          *)
(* ReadableStream, TransformStream (CompressionStream /                    *)
(* DecompressionStream), pipeThrough and Response; those are modelled by   *)
(* what the Streams and Compression standards say they do.                 *)
(***************************************************************************)
EXTENDS Integers, Sequences, FiniteSets, TLC

\* ------------------------------------------------------------------ bounds
\* Longest byte sequence / string given as input.
MaxLen == 2
\* Number of chunks the file read by streamFile consists of.
MaxFileChunks == 4
\* A compressed result handed on as a stream is cut into two chunks at most
\* this far from either of its ends.
MaxCut == 1

\* ------------------------------------------------------- program constants
GZIP == "gzip"
DEFLATE == "deflate"
DEFLATE_RAW == "deflate-raw"
DEFAULT_FORMAT == GZIP
Formats == {GZIP, DEFLATE, DEFLATE_RAW}

\* An omitted option, or one given as undefined.
Undefined == "undefined"

\* The output selectors the README documents.
DocumentedOutputs ==
    {"blob", "stream", "response", "buffer", "bytes", "hex", "base64",
     "base64url", "url", "text"}
\* A selector that is none of them.
UnknownOutput == "bogus"
DEFAULT_TYPE == "application/octet-stream"
\* The high-water mark of a ReadableStream made without a queuing strategy,
\* and of the writable side of a TransformStream.
HighWaterMark == 1

\* ------------------------------------------------------------- sequences
SeqsUpTo(S, n) == UNION {[1..k -> S] : k \in 0..n}

RECURSIVE Concat(_)
Concat(chunks) ==
    IF chunks = <<>> THEN <<>> ELSE Head(chunks) \o Concat(Tail(chunks))

RECURSIVE Sum(_)
Sum(s) == IF s = <<>> THEN 0 ELSE Head(s) + Sum(Tail(s))

Repeat(n, b) == [i \in 1..n |-> b]

\* ------------------------------------------------------------------ values
\* Byte values and characters the inputs are drawn from: two bytes (so that
\* runs and non-runs both occur) and two characters, 'A' (one UTF-8 byte) and
\* U+00E9 (two UTF-8 bytes).
ByteVals == {0, 1}
CharVals == {65, 233}
ByteSeqs == SeqsUpTo(ByteVals, MaxLen)
Strings == SeqsUpTo(CharVals, MaxLen)

\* ------------------------------------------------------------------ errors
NoError == [name |-> "none", msg |-> ""]
TypeError(m) == [name |-> "TypeError", msg |-> m]
Error(m) == [name |-> "Error", msg |-> m]
\* signal.reason of an aborted AbortSignal.
AbortReason == [name |-> "AbortError", msg |-> "signal.reason"]

\* ----------------------------------------------------------- text encoding
\* TextEncoder / TextEncoderStream: UTF-8 of code points below U+0800.
RECURSIVE Utf8Encode(_)
Utf8Encode(chars) ==
    IF chars = <<>> THEN <<>>
    ELSE LET c == Head(chars)
         IN (IF c < 128 THEN <<c>> ELSE <<192 + (c \div 64), 128 + (c % 64)>>)
            \o Utf8Encode(Tail(chars))

\* Response.prototype.text(): UTF-8 decoding, U+FFFD for a byte that starts
\* no valid sequence (one- and two-byte sequences; no byte of the model is a
\* lead byte of a longer one).
RECURSIVE Utf8Decode(_)
Utf8Decode(bytes) ==
    IF bytes = <<>> THEN <<>>
    ELSE LET b == Head(bytes)
         IN IF b < 128 THEN <<b>> \o Utf8Decode(Tail(bytes))
            ELSE IF /\ b >= 194 /\ b <= 223 /\ Len(bytes) >= 2
                    /\ bytes[2] >= 128 /\ bytes[2] <= 191
                 THEN <<(b - 192) * 64 + (bytes[2] - 128)>>
                      \o Utf8Decode(Tail(Tail(bytes)))
                 ELSE <<65533>> \o Utf8Decode(Tail(bytes))

\* Uint8Array.prototype.toHex(): two lower-case hex digits per byte, as
\* character codes.
HexDigit(n) == IF n < 10 THEN 48 + n ELSE 87 + n
RECURSIVE toHex(_)
toHex(bytes) ==
    IF bytes = <<>> THEN <<>>
    ELSE <<HexDigit(Head(bytes) \div 16), HexDigit(Head(bytes) % 16)>>
         \o toHex(Tail(bytes))

\* ------------------------------------------------------------------- codec
\* The platform codec behind CompressionStream / DecompressionStream.  The
\* framing follows the three formats (gzip: 10-byte header, CRC and length
\* trailer; deflate: 2-byte zlib header, Adler-32 trailer; deflate-raw: no
\* framing).  The DEFLATE body is stood in for by a run-length code: a run is
\* <<count, byte>> with count >= 1, and <<0>> ends the stream.
Header(format) ==
    CASE format = GZIP -> <<31, 139, 8, 0, 0, 0, 0, 0, 0, 3>>
      [] format = DEFLATE -> <<120, 156>>
      [] OTHER -> <<>>

\* Integers of the model stay below 2^31, so a 32-bit field is written as
\* its two 16-bit halves.
ToBytes2LE(n) == <<n % 256, (n \div 256) % 256>>
ToBytes2BE(n) == <<(n \div 256) % 256, n % 256>>

\* Adler-32: a = 1 + sum of the bytes, b = sum of the running values of a,
\* both modulo 65521; the checksum is b * 65536 + a.
AdlerA(bytes) == (1 + Sum(bytes)) % 65521
RECURSIVE AdlerB(_, _)
AdlerB(a, bytes) ==
    IF bytes = <<>> THEN 0
    ELSE LET a2 == (a + Head(bytes)) % 65521
         IN (a2 + AdlerB(a2, Tail(bytes))) % 65521
Adler32(bytes) == ToBytes2BE(AdlerB(1, bytes)) \o ToBytes2BE(AdlerA(bytes))

\* The gzip checksum, stood in for by a position-weighted sum (its low 16
\* bits; the high 16 bits are 0), written little-endian.
RECURSIVE WeightedSum(_)
WeightedSum(bytes) ==
    IF bytes = <<>> THEN 0
    ELSE (Len(bytes) * (Head(bytes) + 1) + WeightedSum(Tail(bytes))) % 65536
Crc32(bytes) == ToBytes2LE(WeightedSum(bytes)) \o <<0, 0>>
\* The length of the uncompressed bytes (below 2^16 here), little-endian.
ISize(bytes) == ToBytes2LE(Len(bytes) % 65536) \o <<0, 0>>

Trailer(format, bytes) ==
    CASE format = GZIP -> Crc32(bytes) \o ISize(bytes)
      [] format = DEFLATE -> Adler32(bytes)
      [] OTHER -> <<>>

\* Length of the run of equal bytes a sequence starts with.
RECURSIVE RunLength(_)
RunLength(bytes) ==
    IF Len(bytes) <= 1 THEN Len(bytes)
    ELSE IF bytes[2] = bytes[1] THEN 1 + RunLength(Tail(bytes)) ELSE 1

RECURSIVE EncodeBody(_)
EncodeBody(bytes) ==
    IF bytes = <<>> THEN <<>>
    ELSE LET n == RunLength(bytes)
         IN <<n, Head(bytes)>> \o EncodeBody(SubSeq(bytes, n + 1, Len(bytes)))
EndOfStream == <<0>>

\* Decoding of a body: the decoded bytes and what follows the end marker, or
\* a failure when the end marker is missing.
RECURSIVE DecodeBody(_)
DecodeBody(syms) ==
    IF syms = <<>> THEN [ok |-> FALSE, data |-> <<>>, rest |-> <<>>]
    ELSE IF Head(syms) = 0 THEN [ok |-> TRUE, data |-> <<>>, rest |-> Tail(syms)]
    ELSE IF Len(syms) < 2 THEN [ok |-> FALSE, data |-> <<>>, rest |-> <<>>]
    ELSE LET r == DecodeBody(SubSeq(syms, 3, Len(syms)))
         IN [ok |-> r.ok, data |-> Repeat(syms[1], syms[2]) \o r.data, rest |-> r.rest]

IsPrefix(p, s) == Len(p) <= Len(s) /\ SubSeq(s, 1, Len(p)) = p

\* A decoder that does not compare the trailer with what it decoded.
DecodeUnchecked(format, bytes) ==
    LET h == Header(format)
    IN IF ~IsPrefix(h, bytes)
       THEN [ok |-> FALSE, data |-> <<>>, err |-> TypeError("FormatError")]
       ELSE LET r == DecodeBody(SubSeq(bytes, Len(h) + 1, Len(bytes)))
            IN IF ~r.ok
               THEN [ok |-> FALSE, data |-> <<>>, err |-> TypeError("FormatError")]
               ELSE [ok |-> TRUE, data |-> r.data, err |-> NoError]

\* A whole compressed stream decoded: malformed header or body is a format
\* error, a trailer that does not match the decoded bytes an integrity error.
\* (The platform reports both as a TypeError.)
Decode(format, bytes) ==
    LET h == Header(format)
    IN IF ~IsPrefix(h, bytes)
       THEN [ok |-> FALSE, data |-> <<>>, err |-> TypeError("FormatError")]
       ELSE LET r == DecodeBody(SubSeq(bytes, Len(h) + 1, Len(bytes)))
            IN IF ~r.ok
               THEN [ok |-> FALSE, data |-> <<>>, err |-> TypeError("FormatError")]
               ELSE IF r.rest # Trailer(format, r.data)
               THEN [ok |-> FALSE, data |-> <<>>, err |-> TypeError("IntegrityError")]
               ELSE [ok |-> TRUE, data |-> r.data, err |-> NoError]

\* The output of compressing the chunks fed one by one: the header, one
\* encoded block per input chunk, the end marker and the trailer.
RECURSIVE EncodeChunks(_)
EncodeChunks(chunks) ==
    IF chunks = <<>> THEN <<>>
    ELSE EncodeBody(Head(chunks)) \o EncodeChunks(Tail(chunks))
Encode(format, chunks) ==
    Header(format) \o EncodeChunks(chunks) \o EndOfStream
        \o Trailer(format, Concat(chunks))

\* ------------------------------------------------------------------ inputs
\* What a caller may pass as `data`: its kind (the class or typeof it has), the
\* bytes (or, for a string, the characters) it carries, for a ReadableStream
\* the place where its content is split into two chunks (0: not split), and
\* for a Request / Response whether it has a body, and for a typed array or
\* DataView the bytes of the ArrayBuffer it is a view of (its `.buffer`).
\* `used` tells what became of the object in an earlier operation it was
\* given to: "fresh" when there was none, "locked" for a stream that
\* operation still reads, "closed" for a stream it has read and released,
\* "again" for anything that is no stream.
Input(k, c, s, b) ==
    [kind |-> k, content |-> c, split |-> s, body |-> b, buffer |-> c,
     used |-> "fresh"]
\* A typed array that shows `length` bytes of a larger buffer, from `offset`.
View(k, buffer, offset, length) ==
    [Input(k, SubSeq(buffer, offset + 1, offset + length), 0, TRUE)
        EXCEPT !.buffer = buffer]

BufferKinds == {"ArrayBuffer", "Uint8Array", "Buffer", "Blob"}
MessageKinds == {"Request", "Response"}
PrimitiveKinds == {"number", "boolean", "undefined"}
ObjectKinds == {"null", "array"}
\* Objects that have a `.buffer` holding an ArrayBuffer but are no Uint8Array.
ViewKinds == {"DataView", "Uint16Array"}

Views ==
    {View(t[1], t[2], t[3], t[4]) :
        t \in {u \in {"Uint8Array", "Buffer"} \X ByteSeqs \X (0..MaxLen) \X (1..MaxLen) :
                  u[3] + u[4] <= Len(u[2]) /\ u[4] < Len(u[2])}}
ValidInputs ==
    {Input("string", s, 0, TRUE) : s \in Strings}
    \cup Views
    \cup {Input(k, c, 0, TRUE) : k \in BufferKinds \cup MessageKinds, c \in ByteSeqs}
    \cup UNION {{Input("ReadableStream", c, s, TRUE) :
                     s \in {n \in 0..MaxLen : n = 0 \/ n < Len(c)}} : c \in ByteSeqs}
InvalidInputs ==
    {Input(k, <<>>, 0, FALSE) : k \in PrimitiveKinds \cup ObjectKinds \cup MessageKinds}
    \cup {Input(k, c, 0, FALSE) : k \in ViewKinds, c \in ByteSeqs}
Inputs == ValidInputs \cup InvalidInputs

\* The byte sequence a valid input carries.
BytesOf(input) ==
    IF input.kind = "string" THEN Utf8Encode(input.content) ELSE input.content

typeof(input) ==
    CASE input.kind = "string" -> "string"
      [] input.kind \in PrimitiveKinds -> input.kind
      [] OTHER -> "object"

\* `input instanceof cls`; a node Buffer is an instance of Uint8Array.
instanceof(input, cls) ==
    \/ input.kind = cls
    \/ input.kind = "Buffer" /\ cls = "Uint8Array"

\* ----------------------------------------------------------------- streams
\* A ReadableStream: the chunks queued in it, whether its controller was
\* closed (no chunk will follow), whether a reader holds its lock, its state
\* and stored error, and how many chunks have been read from it.
Stream(q, done) ==
    [q |-> q, done |-> done, locked |-> FALSE, state |-> "readable",
     err |-> NoError, pulled |-> 0]
NoStream ==
    [q |-> <<>>, done |-> FALSE, locked |-> FALSE, state |-> "none",
     err |-> NoError, pulled |-> 0]

\* The chunks of a stream that carries `bytes`: none when empty, else one
\* chunk, or two when split at `at`.
Chunks(bytes, at) ==
    IF bytes = <<>> THEN <<>>
    ELSE IF at = 0 THEN <<bytes>>
    ELSE <<SubSeq(bytes, 1, at), SubSeq(bytes, at + 1, Len(bytes))>>

\* The stream that a ReadableStream input is, or that is the body of a
\* Request or Response.
StreamIn(input) ==
    CASE input.used = "locked" ->
           [Stream(Chunks(input.content, input.split), TRUE) EXCEPT !.locked = TRUE]
      [] input.used = "closed" -> Stream(<<>>, TRUE)
      [] OTHER -> Stream(Chunks(input.content, input.split), TRUE)

Thrown(e) == [ok |-> FALSE, err |-> e, stream |-> NoStream]
Returned(s) == [ok |-> TRUE, err |-> NoError, stream |-> s]

\* The input conversion of the earlier version of the library: a string is
\* encoded at once and enqueued as one Uint8Array, and anything else with a
\* `.buffer` holding an ArrayBuffer is taken as that buffer.
_convert(input) ==
    IF typeof(input) = "string"
    THEN Returned(Stream(<<Utf8Encode(input.content)>>, TRUE))
    ELSE IF typeof(input) # "object"
    THEN Thrown(TypeError("Invalid input type"))
    ELSE IF instanceof(input, "ReadableStream")
    THEN Returned(StreamIn(input))
    ELSE IF instanceof(input, "ArrayBuffer")
    THEN Returned(Stream(<<input.content>>, TRUE))
    ELSE IF instanceof(input, "Uint8Array")
    THEN Returned(Stream(<<input.content>>, TRUE))
    ELSE IF instanceof(input, "Blob")
    THEN Returned(Stream(Chunks(input.content, 0), TRUE))
    ELSE IF (instanceof(input, "Response") \/ instanceof(input, "Request")) /\ input.body
    THEN Returned(StreamIn(input))
    ELSE IF input.kind \in ViewKinds
    THEN Returned(Stream(<<input.buffer>>, TRUE))
    ELSE Thrown(TypeError("Unsupported input type"))

\* toStream taking the .buffer of a typed array before it looks for a
\* Uint8Array (what the first release did with a node Buffer).
toStreamBufferFirst(input) ==
    IF input.kind \in {"Uint8Array", "Buffer"}
    THEN Returned(Stream(<<input.buffer>>, TRUE))
    ELSE _convert(input)
\* toStream cutting a buffer into chunks of one byte.
toStreamBytewise(input) ==
    IF input.kind \in {"ArrayBuffer", "Uint8Array", "Buffer"}
    THEN Returned(Stream([i \in 1..Len(input.content) |-> <<input.content[i]>>], TRUE))
    ELSE _convert(input)
\* toStream with the .buffer fallback of the earlier version.
toStreamWithBufferFallback(input) == _convert(input)
toStream(input) ==
    IF typeof(input) = "string"
    THEN Returned(Stream(Chunks(Utf8Encode(input.content), 0), TRUE))
    ELSE IF typeof(input) # "object"
    THEN Thrown(TypeError("Invalid input type"))
    ELSE IF instanceof(input, "ReadableStream")
    THEN Returned(StreamIn(input))
    ELSE IF instanceof(input, "ArrayBuffer")
    THEN Returned(Stream(<<input.content>>, TRUE))
    ELSE IF instanceof(input, "Uint8Array")
    THEN Returned(Stream(<<input.content>>, TRUE))
    ELSE IF instanceof(input, "Blob")
    THEN Returned(Stream(Chunks(input.content, 0), TRUE))
    ELSE IF (instanceof(input, "Response") \/ instanceof(input, "Request")) /\ input.body
    THEN Returned(StreamIn(input))
    ELSE Thrown(TypeError("Unsupported input type"))

\* ------------------------------------------------------------ the pipeline
\* A codec (the TransformStream made by new CompressionStream(format) or new
\* DecompressionStream(format)): the chunk written to it and not yet
\* transformed (its writable side holds one), and the chunks it has consumed.
NoCodec ==
    [created |-> FALSE, method |-> "none", format |-> "none",
     pending |-> <<>>, acc |-> <<>>]
CompressionStream(format) ==
    [created |-> TRUE, method |-> "compress", format |-> format,
     pending |-> <<>>, acc |-> <<>>]
DecompressionStream(format) ==
    [created |-> TRUE, method |-> "decompress", format |-> format,
     pending |-> <<>>, acc |-> <<>>]

\* The pipe pipeThrough sets up from the source to the codec: whether it is
\* still running, whether it was given a signal, and whether it has released
\* the source's lock again.
NoPipe == [active |-> FALSE, signalled |-> FALSE, set |-> FALSE]
\* The readable side of the codec: the chunks queued in it, whether the codec
\* has finished, and its state and stored error.
NoOut == [q |-> <<>>, ended |-> FALSE, state |-> "none", err |-> NoError]
Readable == [q |-> <<>>, ended |-> FALSE, state |-> "readable", err |-> NoError]
Errored(e) == [q |-> <<>>, ended |-> FALSE, state |-> "errored", err |-> e]

\* ReadableStream.prototype.pipeThrough(transform, { signal }): throws when the
\* stream is locked; else locks it and pipes it into the transform.  With a
\* signal that is already aborted the pipe shuts down at once: the source is
\* cancelled and the transform aborted, which errors its readable side with
\* the signal's reason.
\* pipeThrough taking a stream whether it is locked or not.
pipeThroughLocked(stream, transform, signal) ==
    [ok |-> TRUE, err |-> NoError,
     src |-> [stream EXCEPT !.locked = TRUE],
     codec |-> transform,
     pipe |-> [active |-> TRUE, signalled |-> signal # Undefined, set |-> TRUE],
     out |-> Readable]
pipeThrough(stream, transform, signal) ==
    IF stream.locked
    THEN [ok |-> FALSE, err |-> TypeError("ReadableStream is locked"),
          src |-> stream, codec |-> transform, pipe |-> NoPipe, out |-> NoOut]
    ELSE IF signal = "aborted"
    THEN [ok |-> TRUE, err |-> NoError,
          src |-> [stream EXCEPT !.locked = TRUE, !.state = "cancelled", !.q = <<>>],
          codec |-> transform,
          pipe |-> [active |-> FALSE, signalled |-> TRUE, set |-> TRUE],
          out |-> Errored(AbortReason)]
    ELSE [ok |-> TRUE, err |-> NoError,
          src |-> [stream EXCEPT !.locked = TRUE],
          codec |-> transform,
          pipe |-> [active |-> TRUE, signalled |-> signal # Undefined, set |-> TRUE],
          out |-> Readable]

\* ------------------------------------------------------------------ output
\* A parameter's default value: taken when the argument is undefined.
Default(v, d) == IF v = Undefined THEN d ELSE v

Value(k, c, t) == [kind |-> k, content |-> c, type |-> t]
NoValue == Value("none", <<>>, "")
NoPromise == [state |-> "none", value |-> NoValue, error |-> NoError]
Pending == [state |-> "pending", value |-> NoValue, error |-> NoError]
Fulfilled(v) == [state |-> "fulfilled", value |-> v, error |-> NoError]
Rejected(e) == [state |-> "rejected", value |-> NoValue, error |-> e]

\* Who reads the codec's readable side: a Response that reads it to the end
\* ("materializer", with the selector and content type it was made for), or
\* the caller who was handed the stream ("caller"); what it has read so far,
\* and (for the caller) whether a read is outstanding.
NoConsumer ==
    [kind |-> "none", output |-> "none", type |-> "", demand |-> FALSE, got |-> <<>>]
Materializer(output, type) ==
    [kind |-> "materializer", output |-> output, type |-> type,
     demand |-> TRUE, got |-> <<>>]
Caller ==
    [kind |-> "caller", output |-> "stream", type |-> "", demand |-> FALSE, got |-> <<>>]

\* The switch of fromStream: what the returned promise is at once, and who
\* will read the stream.
fromStream(selector, contentType) ==
    LET output == Default(selector, "blob")
        type == Default(contentType, DEFAULT_TYPE)
    IN
    CASE output = "stream" ->
           [promise |-> Fulfilled(Value("ReadableStream", <<>>, "")), consumer |-> Caller]
      [] output = "response" ->
           [promise |-> Fulfilled(Value("Response", <<>>, "")), consumer |-> Caller]
      [] output = "blob" ->
           [promise |-> Pending, consumer |-> Materializer("blob", type)]
      [] output = "buffer" ->
           [promise |-> Pending, consumer |-> Materializer("buffer", "")]
      [] output = "bytes" ->
           [promise |-> Pending, consumer |-> Materializer("bytes", "")]
      [] output = "hex" ->
           [promise |-> Pending, consumer |-> Materializer("hex", "")]
      [] output \in {"base64", "base64url"} ->
           \* new Response(stream).then: a Response has no `then`.
           [promise |-> Rejected(TypeError("Response.then is not a function")),
            consumer |-> NoConsumer]
      [] output = "url" ->
           [promise |-> Pending, consumer |-> Materializer("url", type)]
      [] output = "text" ->
           [promise |-> Pending, consumer |-> Materializer("text", type)]
      [] OTHER ->
           [promise |-> Rejected(TypeError("Unsupported output")), consumer |-> NoConsumer]

\* What the promise of a materializing selector is fulfilled with once the
\* Response has read all the bytes.
Materialize(output, bytes, type) ==
    CASE output = "blob" -> Value("Blob", bytes, type)
      [] output = "buffer" -> Value("ArrayBuffer", bytes, "")
      [] output = "bytes" -> Value("Uint8Array", bytes, "")
      [] output = "hex" -> Value("string", toHex(bytes), "")
      [] output = "url" -> Value("url", bytes, type)
      [] OTHER -> Value("string", Utf8Decode(bytes), "")

\* -------------------------------------------------------------- operations

\* The state a call leaves behind: the source stream, the codec, the pipe,
\* the codec's readable side, its consumer and the returned promise.
Outcome(s, c, p, o, k, r) ==
    [src |-> s, codec |-> c, pipe |-> p, out |-> o, consumer |-> k, promise |-> r]

\* _transform making the codec before it converts the input.
_transformCodecFirst(method, data, options) ==
    LET format == Default(options.format, DEFAULT_FORMAT)
        output == Default(options.output, "blob")
        type == Default(options.type, DEFAULT_TYPE)
        source == toStream(data)
        transform == IF method = "compress" THEN CompressionStream(format)
                                            ELSE DecompressionStream(format)
        piped == pipeThrough(source.stream, transform, options.signal)
        result == fromStream(output, type)
    IN IF ~source.ok
       THEN Outcome(NoStream, transform, NoPipe, NoOut, NoConsumer, Rejected(source.err))
       ELSE IF ~piped.ok
       THEN Outcome(piped.src, piped.codec, NoPipe, NoOut, NoConsumer,
                    Rejected(piped.err))
       ELSE Outcome(piped.src, piped.codec, piped.pipe, piped.out,
                    result.consumer, result.promise)

\* _transform handing the signal to the codec's constructor, as the streaming
\* forms do, and not to pipeThrough.
_transformSignalToCodec(method, data, options) ==
    LET format == Default(options.format, DEFAULT_FORMAT)
        output == Default(options.output, "blob")
        type == Default(options.type, DEFAULT_TYPE)
        source == toStream(data)
        transform == IF method = "compress" THEN CompressionStream(format)
                                            ELSE DecompressionStream(format)
        piped == pipeThrough(source.stream, transform, Undefined)
        result == fromStream(output, type)
    IN IF ~source.ok
       THEN Outcome(NoStream, NoCodec, NoPipe, NoOut, NoConsumer, Rejected(source.err))
       ELSE IF ~piped.ok
       THEN Outcome(piped.src, piped.codec, NoPipe, NoOut, NoConsumer,
                    Rejected(piped.err))
       ELSE Outcome(piped.src, piped.codec, piped.pipe, piped.out,
                    result.consumer, result.promise)

\* _transform checking the selector before it builds the pipeline.
_transformSelectorFirst(method, data, options) ==
    LET format == Default(options.format, DEFAULT_FORMAT)
        output == Default(options.output, "blob")
        type == Default(options.type, DEFAULT_TYPE)
        source == toStream(data)
        transform == IF method = "compress" THEN CompressionStream(format)
                                            ELSE DecompressionStream(format)
        piped == pipeThrough(source.stream, transform, options.signal)
        result == fromStream(output, type)
    IN IF result.promise = Rejected(TypeError("Unsupported output"))
       THEN Outcome(NoStream, NoCodec, NoPipe, NoOut, NoConsumer, result.promise)
       ELSE IF ~source.ok
       THEN Outcome(NoStream, NoCodec, NoPipe, NoOut, NoConsumer, Rejected(source.err))
       ELSE IF ~piped.ok
       THEN Outcome(piped.src, piped.codec, NoPipe, NoOut, NoConsumer,
                    Rejected(piped.err))
       ELSE Outcome(piped.src, piped.codec, piped.pipe, piped.out,
                    result.consumer, result.promise)

_transform(method, data, options) ==
    LET format == Default(options.format, DEFAULT_FORMAT)
        output == Default(options.output, "blob")
        type == Default(options.type, DEFAULT_TYPE)
        source == toStream(data)
    IN IF ~source.ok
       THEN Outcome(NoStream, NoCodec, NoPipe, NoOut, NoConsumer, Rejected(source.err))
       ELSE LET transform == IF method = "compress" THEN CompressionStream(format)
                                                   ELSE DecompressionStream(format)
                piped == pipeThrough(source.stream, transform, options.signal)
                result == fromStream(output, type)
            IN IF ~piped.ok
               THEN Outcome(piped.src, piped.codec, NoPipe, NoOut, NoConsumer,
                            Rejected(piped.err))
               ELSE Outcome(piped.src, piped.codec, piped.pipe, piped.out,
                            result.consumer, result.promise)

\* The options a one-shot function hands on to _transform.
Forward(output, format, signal) ==
    [output |-> output, format |-> format, type |-> Undefined, signal |-> signal]

compress(data, o) ==
    _transform("compress", data,
               Forward(Default(o.output, "blob"), Default(o.format, DEFAULT_FORMAT), o.signal))
\* decompress with deflate as the default format.
decompressDefaultDeflate(data, o) ==
    _transform("decompress", data, Forward(o.output, Default(o.format, DEFLATE), o.signal))
decompress(data, o) ==
    _transform("decompress", data,
               Forward(o.output, Default(o.format, DEFAULT_FORMAT), o.signal))
gzip(data, o) ==
    _transform("compress", data, Forward(Default(o.output, "blob"), GZIP, o.signal))
\* gunzip calling _transform with the method of gzip.
gunzipCompressing(data, o) ==
    _transform("compress", data, Forward(o.output, GZIP, o.signal))
gunzip(data, o) ==
    _transform("decompress", data, Forward(o.output, GZIP, o.signal))
deflate(data, o) ==
    _transform("compress", data, Forward(Default(o.output, "blob"), DEFLATE, o.signal))
deflateRaw(data, o) ==
    _transform("compress", data, Forward(Default(o.output, "blob"), DEFLATE_RAW, o.signal))
\* inflate with the format of inflateRaw (a copy-and-paste slip).
inflateAsRaw(data, o) ==
    _transform("decompress", data, Forward(o.output, DEFLATE_RAW, o.signal))
inflate(data, o) ==
    _transform("decompress", data, Forward(o.output, DEFLATE, o.signal))
inflateRaw(data, o) ==
    _transform("decompress", data, Forward(o.output, DEFLATE_RAW, o.signal))

\* The streaming forms: a synchronous throw, or the pipe set up.  The signal
\* is handed to the codec's constructor, which takes the format alone, and
\* not to pipeThrough.
StreamThrown(stream, e) ==
    [ok |-> FALSE, err |-> e, src |-> stream, codec |-> NoCodec, pipe |-> NoPipe,
     out |-> NoOut]

\* compressStream without the check of the signal.
compressStreamUnchecked(stream, o) ==
    pipeThrough(stream, CompressionStream(Default(o.format, "gzip")), Undefined)
compressStream(stream, o) ==
    IF o.signal = "aborted"
    THEN StreamThrown(stream, AbortReason)
    ELSE pipeThrough(stream, CompressionStream(Default(o.format, "gzip")), Undefined)
decompressStream(stream, o) ==
    IF o.signal = "aborted"
    THEN StreamThrown(stream, AbortReason)
    ELSE pipeThrough(stream, DecompressionStream(Default(o.format, "gzip")), Undefined)

WithFormat(o, format) == [o EXCEPT !.format = format]
gzipStream(stream, o) == compressStream(stream, WithFormat(o, GZIP))
gunzipStream(stream, o) == decompressStream(stream, WithFormat(o, GZIP))
deflateStream(stream, o) == compressStream(stream, WithFormat(o, DEFLATE))
deflateRawStream(stream, o) == compressStream(stream, WithFormat(o, DEFLATE_RAW))
inflateStream(stream, o) == decompressStream(stream, WithFormat(o, DEFLATE))
inflateRawStream(stream, o) == decompressStream(stream, WithFormat(o, DEFLATE_RAW))

\* streamFile's checks, in the order the code makes them.  A path is a string
\* or a URL (with the protocol it has, or resolves to against file://cwd) or
\* something else; `node` says whether process.cwd exists.
Path(t, p) == [type |-> t, protocol |-> p]
Paths ==
    {Path("string", "file:"), Path("string", "https:"), Path("URL", "file:"),
     Path("URL", "https:"), Path("object", "")}

RECURSIVE streamFile(_, _, _)
streamFile(path, o, node) ==
    IF ~node
    THEN Thrown(Error("This function is only available in node."))
    ELSE IF path.type = "string"
    THEN streamFile(Path("URL", path.protocol), o, node)
    ELSE IF path.type # "URL"
    THEN Thrown(TypeError("Path must be a file: URL"))
    ELSE IF path.protocol # "file:"
    THEN Thrown(TypeError("Cannot read non-file URL"))
    ELSE IF o.signal = "aborted"
    THEN Thrown(AbortReason)
    ELSE Returned(Stream(<<>>, FALSE))

\* ------------------------------------------------------------------- state
VARIABLES
    pc,        \* "idle", "file" (streamFile returned a stream no operation has
               \* taken yet), "oneshot", "stream", or "threw"
    call,      \* the last call: the function, its data or path, its options
    signal,    \* the AbortSignal passed: "none", "live" or "aborted"
    src,       \* the source stream
    codec,     \* the codec
    pipe,      \* the pipe from the source to the codec
    out,       \* the readable side of the codec
    consumer,  \* who reads it
    promise,   \* the promise a one-shot operation returned
    thrown,    \* what a call threw synchronously
    prev,      \* the operation whose result the current one was given as data
    file,      \* the file streamFile reads
    other      \* a second operation, running beside the one the other
               \* variables describe

vars ==
    <<pc, call, signal, src, codec, pipe, out, consumer, promise, thrown, prev, file,
      other>>

NoInput == Input("none", <<>>, 0, FALSE)
FileStream == Input("FileStream", <<>>, 0, TRUE)
NoPath == Path("none", "")
Options(format, output, sig) == [format |-> format, output |-> output, signal |-> sig]
NoCall ==
    [op |-> "none", data |-> NoInput, path |-> NoPath, node |-> TRUE,
     options |-> Options(Undefined, Undefined, Undefined)]
NoPrev ==
    [chained |-> FALSE, format |-> "none", bytes |-> <<>>, split |-> 0,
     tampered |-> FALSE]
NoFile == [state |-> "none", remaining |-> <<>>, signalled |-> FALSE, opened |-> 0,
           closed |-> 0, err |-> NoError]

\* An operation that is not the one at hand: what its call made and holds.
Operation(p, c, s, cd, pp, o, k, pr) ==
    [pc |-> p, call |-> c, src |-> s, codec |-> cd, pipe |-> pp, out |-> o,
     consumer |-> k, promise |-> pr]
NoOther ==
    Operation("idle", NoCall, NoStream, NoCodec, NoPipe, NoOut, NoConsumer, NoPromise)

Init ==
    /\ other = NoOther
    /\ pc = "idle"
    /\ call = NoCall
    /\ signal = "none"
    /\ src = NoStream
    /\ codec = NoCodec
    /\ pipe = NoPipe
    /\ out = NoOut
    /\ consumer = NoConsumer
    /\ promise = NoPromise
    /\ thrown = NoError
    /\ prev = NoPrev
    /\ file = NoFile

Signals == {Undefined, "live", "aborted"}
Selectors == DocumentedOutputs \cup {Undefined, UnknownOutput}
\* The options objects a caller passes; the format-named functions read no
\* format from them.
GenericOptions == {Options(f, o, g) : f \in Formats \cup {Undefined}, o \in Selectors, g \in Signals}
NamedOptions == {Options(Undefined, o, g) : o \in Selectors, g \in Signals}
GenericStreamOptions == {Options(f, Undefined, g) : f \in Formats \cup {Undefined}, g \in Signals}
NamedStreamOptions == {Options(Undefined, Undefined, g) : g \in Signals}

\* The format a call asks for: the one in the function's name, else the
\* format option, else gzip.
RequestedFormat(c) ==
    CASE c.op \in {"gzip", "gunzip", "gzipStream", "gunzipStream"} -> "gzip"
      [] c.op \in {"deflate", "inflate", "deflateStream", "inflateStream"} -> "deflate"
      [] c.op \in {"deflateRaw", "inflateRaw", "deflateRawStream", "inflateRawStream"} ->
           "deflate-raw"
      [] OTHER -> IF c.options.format = Undefined THEN "gzip" ELSE c.options.format

\* -------------------------------------------------------- one-shot calls
\* The fulfilled result of a compression that is itself a supported input
\* may be given to a decompression, as it is or as a stream of its bytes cut
\* into two chunks; prev then keeps the format of the compression, the bytes
\* that were compressed and where the stream that carried them was split.
\* The result may also be given with one byte of its checksum changed; prev
\* then says so.
CanChain ==
    /\ pc = "oneshot"
    /\ ~prev.chained
    /\ codec.method = "compress"
    /\ promise.state = "fulfilled"
    /\ promise.value.kind \in {"Blob", "ArrayBuffer", "Uint8Array"}
\* The places of the checksum in a compressed stream: the CRC-32 that comes
\* before the length in a gzip trailer, the Adler-32 that ends a zlib stream.
ChecksumField(format, bytes) ==
    CASE format = GZIP -> (Len(bytes) - 7)..(Len(bytes) - 4)
      [] format = DEFLATE -> (Len(bytes) - 3)..Len(bytes)
      [] OTHER -> {}
Tamper(bytes, i) == [bytes EXCEPT ![i] = (@ + 1) % 256]
Cuts(bytes) ==
    {n \in 1..(Len(bytes) - 1) : n <= MaxCut \/ n >= Len(bytes) - MaxCut}
\* What a caller who holds the compressed bytes may make of them.
Rechunked ==
    {Input("ReadableStream", promise.value.content, n, TRUE) :
        n \in Cuts(promise.value.content)}
Tampered ==
    {Input("Uint8Array", Tamper(promise.value.content, i), 0, TRUE) :
        i \in ChecksumField(codec.format, promise.value.content)}
FreshArguments == IF pc = "idle" THEN Inputs ELSE {}
Arguments ==
    IF pc = "idle" THEN Inputs
    ELSE IF CanChain
    THEN {Input(promise.value.kind, promise.value.content, 0, TRUE)}
         \cup (IF promise.value.kind = "Uint8Array" THEN Rechunked \cup Tampered ELSE {})
    ELSE {}

Invoke(op, data, o, r) ==
    /\ call' = [op |-> op, data |-> data, path |-> NoPath, node |-> TRUE, options |-> o]
    /\ prev' = IF pc = "idle" \/ data.used # "fresh" THEN NoPrev
               ELSE [chained |-> TRUE, format |-> RequestedFormat(call),
                     bytes |-> BytesOf(call.data), split |-> call.data.split,
                     tampered |-> data.content # promise.value.content]
    /\ signal' = IF o.signal = Undefined THEN "none" ELSE o.signal
    /\ src' = r.src
    /\ codec' = r.codec
    /\ pipe' = r.pipe
    /\ out' = r.out
    /\ consumer' = r.consumer
    /\ promise' = r.promise
    /\ pc' = "oneshot"
    /\ UNCHANGED <<thrown, file, other>>

Compress == \E data \in FreshArguments, o \in GenericOptions : Invoke("compress", data, o, compress(data, o))
Decompress == \E data \in Arguments, o \in GenericOptions : Invoke("decompress", data, o, decompress(data, o))
Gzip == \E data \in FreshArguments, o \in NamedOptions : Invoke("gzip", data, o, gzip(data, o))
Gunzip == \E data \in Arguments, o \in NamedOptions : Invoke("gunzip", data, o, gunzip(data, o))
Deflate == \E data \in FreshArguments, o \in NamedOptions : Invoke("deflate", data, o, deflate(data, o))
DeflateRaw == \E data \in FreshArguments, o \in NamedOptions : Invoke("deflateRaw", data, o, deflateRaw(data, o))
Inflate == \E data \in Arguments, o \in NamedOptions : Invoke("inflate", data, o, inflate(data, o))
InflateRaw == \E data \in Arguments, o \in NamedOptions : Invoke("inflateRaw", data, o, inflateRaw(data, o))

\* ------------------------------------------------------ streaming calls
\* The stream given to a streaming form: one the caller made, or the one
\* streamFile returned.
StreamArguments ==
    IF pc = "idle" THEN {i \in ValidInputs : i.kind = "ReadableStream"}
    ELSE IF pc = "file" THEN {FileStream}
    ELSE {}
StreamOf(data) ==
    IF data = FileStream THEN src ELSE Stream(Chunks(data.content, data.split), TRUE)

InvokeStream(op, data, o, r) ==
    /\ call' = [op |-> op, data |-> data, path |-> NoPath, node |-> TRUE, options |-> o]
    /\ signal' = IF o.signal = Undefined THEN signal ELSE o.signal
    /\ IF r.ok
       THEN /\ src' = r.src
            /\ codec' = r.codec
            /\ pipe' = r.pipe
            /\ out' = r.out
            /\ consumer' = Caller
            /\ pc' = "stream"
            /\ UNCHANGED thrown
       ELSE /\ src' = r.src
            /\ pc' = "threw"
            /\ thrown' = r.err
            /\ UNCHANGED <<codec, pipe, out, consumer>>
    /\ UNCHANGED <<promise, prev, file, other>>

CompressStream ==
    \E data \in StreamArguments, o \in GenericStreamOptions :
        InvokeStream("compressStream", data, o, compressStream(StreamOf(data), o))
DecompressStream ==
    \E data \in StreamArguments, o \in GenericStreamOptions :
        InvokeStream("decompressStream", data, o, decompressStream(StreamOf(data), o))
GzipStream ==
    \E data \in StreamArguments, o \in NamedStreamOptions :
        InvokeStream("gzipStream", data, o, gzipStream(StreamOf(data), o))
GunzipStream ==
    \E data \in StreamArguments, o \in NamedStreamOptions :
        InvokeStream("gunzipStream", data, o, gunzipStream(StreamOf(data), o))
DeflateStream ==
    \E data \in StreamArguments, o \in NamedStreamOptions :
        InvokeStream("deflateStream", data, o, deflateStream(StreamOf(data), o))
DeflateRawStream ==
    \E data \in StreamArguments, o \in NamedStreamOptions :
        InvokeStream("deflateRawStream", data, o, deflateRawStream(StreamOf(data), o))
InflateStream ==
    \E data \in StreamArguments, o \in NamedStreamOptions :
        InvokeStream("inflateStream", data, o, inflateStream(StreamOf(data), o))
InflateRawStream ==
    \E data \in StreamArguments, o \in NamedStreamOptions :
        InvokeStream("inflateRawStream", data, o, inflateRawStream(StreamOf(data), o))

\* ------------------------------------------------------------- streamFile
\* The methods of the controller start() is given.  controller.error(e) errors
\* a readable stream and drops its queue, and does nothing to a stream that is
\* no longer readable; controller.close() throws a TypeError unless the stream
\* is readable and not yet closed.
controllerError(stream, e) ==
    IF stream.state = "readable"
    THEN [stream EXCEPT !.state = "errored", !.err = e, !.q = <<>>]
    ELSE stream
controllerClose(stream) ==
    IF stream.state = "readable" /\ ~stream.done
    THEN [ok |-> TRUE, err |-> NoError, stream |-> [stream EXCEPT !.done = TRUE]]
    ELSE [ok |-> FALSE, err |-> TypeError("Invalid state"), stream |-> stream]
\* start() threw: its promise is rejected, and the stream is errored with the
\* reason if it is still readable.
startRejected(stream, r) == controllerError(stream, r)

\* The cleanup in which the failed close() of the finally block takes the
\* place of the error of the file.
cleanupMasking(stream, err) ==
    IF stream.state = "readable"
    THEN [stream EXCEPT !.state = "errored", !.err = TypeError("Invalid state"), !.q = <<>>]
    ELSE stream
\* What start() does to the stream when the loop over the file threw err:
\* controller.error(err) in the catch block, then controller.close() in the
\* outer finally block, which throws out of start().
cleanup(stream, err) ==
    LET errored == controllerError(stream, err)
        closed == controllerClose(errored)
    IN IF closed.ok THEN closed.stream ELSE startRejected(closed.stream, closed.err)
\* What it does when the loop ran to the end of the file: controller.close().
finish(stream) ==
    LET closed == controllerClose(stream)
    IN IF closed.ok THEN closed.stream ELSE startRejected(closed.stream, closed.err)

\* The error a failed open or read of the file gives.
ReadError == Error("EIO")

\* The chunks of a file of n chunks.
FileChunks(n) == [i \in 1..n |-> <<i % 2>>]

StreamFile ==
    \E path \in Paths, g \in Signals, node \in BOOLEAN, n \in 0..MaxFileChunks :
        LET o == Options(Undefined, Undefined, g)
            r == streamFile(path, o, node)
        IN /\ pc = "idle"
           /\ call' = [op |-> "streamFile", data |-> NoInput, path |-> path,
                       node |-> node, options |-> o]
           /\ signal' = IF g = Undefined THEN "none" ELSE g
           /\ IF r.ok
              THEN /\ pc' = "file"
                   /\ src' = r.stream
                   /\ file' = [state |-> "unopened", remaining |-> FileChunks(n),
                               signalled |-> g # Undefined, opened |-> 0, closed |-> 0,
                               err |-> NoError]
                   /\ UNCHANGED thrown
              ELSE /\ pc' = "threw"
                   /\ thrown' = r.err
                   /\ UNCHANGED <<src, file>>
           /\ UNCHANGED <<codec, pipe, out, consumer, promise, prev, other>>

\* The start() of the stream streamFile returns.  createReadStream opens the
\* file.
FileOpen ==
    /\ file.state = "unopened"
    /\ file' = [file EXCEPT !.state = "open", !.opened = @ + 1]
    /\ UNCHANGED <<pc, call, signal, src, codec, pipe, out, consumer, promise, thrown, prev, other>>

FileAborted == file.signalled /\ signal = "aborted"

\* The file cannot be opened: the loop throws before any chunk.
FileOpenFail ==
    /\ file.state = "unopened"
    /\ file' = [file EXCEPT !.state = "failed", !.err = ReadError]
    /\ src' = cleanup(src, ReadError)
    /\ UNCHANGED <<pc, call, signal, codec, pipe, out, consumer, promise, thrown, prev, other>>

\* One turn of the for-await loop that leaves the file open.
FileReadAbandoning ==
    /\ file.state = "open"
    /\ file.remaining # <<>>
    /\ ~FileAborted
    /\ IF src.state = "readable"
       THEN /\ src' = [src EXCEPT !.q = Append(@, Head(file.remaining))]
            /\ file' = [file EXCEPT !.remaining = Tail(@)]
       ELSE /\ file' = [file EXCEPT !.state = "abandoned"]
            /\ UNCHANGED src
    /\ UNCHANGED <<pc, call, signal, codec, pipe, out, consumer, promise, thrown, prev, other>>

\* One turn of the for-await loop: controller.enqueue(chunk), whatever the
\* size of the queue.  On a stream that is no longer readable enqueue throws
\* a TypeError: the handlers run and the file is closed.
FileRead ==
    /\ file.state = "open"
    /\ file.remaining # <<>>
    /\ ~FileAborted
    /\ IF src.state = "readable"
       THEN /\ src' = [src EXCEPT !.q = Append(@, Head(file.remaining))]
            /\ file' = [file EXCEPT !.remaining = Tail(@)]
       ELSE /\ file' = [file EXCEPT !.state = "closed", !.closed = @ + 1]
            /\ src' = cleanup(src, TypeError("Invalid state"))
    /\ UNCHANGED <<pc, call, signal, codec, pipe, out, consumer, promise, thrown, prev, other>>

\* A read of the file fails: the loop throws the error, the handlers run and
\* the file is closed.
FileFail ==
    /\ file.state = "open"
    /\ ~FileAborted
    /\ file' = [file EXCEPT !.state = "closed", !.closed = @ + 1, !.err = ReadError]
    /\ src' = cleanup(src, ReadError)
    /\ UNCHANGED <<pc, call, signal, codec, pipe, out, consumer, promise, thrown, prev, other>>

\* The file is read to its end: fakeStream.close(), then controller.close().
FileEnd ==
    /\ file.state = "open"
    /\ file.remaining = <<>>
    /\ ~FileAborted
    /\ file' = [file EXCEPT !.state = "closed", !.closed = @ + 1]
    /\ src' = finish(src)
    /\ UNCHANGED <<pc, call, signal, codec, pipe, out, consumer, promise, thrown, prev, other>>

\* The signal given to createReadStream is aborted: the loop throws the
\* signal's reason, the handlers run and the file is closed.
FileAbort ==
    /\ file.state = "open"
    /\ FileAborted
    /\ file' = [file EXCEPT !.state = "closed", !.closed = @ + 1, !.err = AbortReason]
    /\ src' = cleanup(src, AbortReason)
    /\ UNCHANGED <<pc, call, signal, codec, pipe, out, consumer, promise, thrown, prev, other>>

\* The caller cancels the stream streamFile returned.
CancelFile ==
    /\ pc = "file"
    /\ src.state = "readable"
    /\ src' = [src EXCEPT !.state = "cancelled", !.q = <<>>]
    /\ UNCHANGED <<pc, call, signal, codec, pipe, out, consumer, promise, thrown, prev, file, other>>

\* ----------------------------------------------------- the pipe at work
\* The pipe reads a chunk from the source when the codec's writable side has
\* room for it.
PipeRead ==
    /\ pipe.active
    /\ src.state = "readable"
    /\ src.q # <<>>
    /\ Len(codec.pending) < HighWaterMark
    /\ src' = [src EXCEPT !.q = Tail(@), !.pulled = @ + 1]
    /\ codec' = [codec EXCEPT !.pending = <<Head(src.q)>>]
    /\ UNCHANGED <<pc, call, signal, pipe, out, consumer, promise, thrown, prev, file, other>>

\* A read of the codec's readable side is outstanding.
Demand == consumer.kind = "materializer" \/ consumer.demand

Enqueue(q, chunk) == IF chunk = <<>> THEN q ELSE Append(q, chunk)

\* A codec that starts afresh with every chunk written to it.
TransformPerChunk ==
    /\ codec.pending # <<>>
    /\ out.state = "readable"
    /\ out.q = <<>>
    /\ Demand
    /\ LET chunk == Head(codec.pending)
       IN /\ codec' = [codec EXCEPT !.pending = <<>>, !.acc = <<chunk>>]
          /\ out' = IF codec.method = "compress"
                    THEN [out EXCEPT !.q = Enqueue(@, Header(codec.format) \o EncodeBody(chunk))]
                    ELSE out
    /\ UNCHANGED <<pc, call, signal, src, pipe, consumer, promise, thrown, prev, file, other>>

\* The codec transforms the chunk written to it, once its readable side is
\* being read (a TransformStream's readable side has a high-water mark of 0).
\* Compression emits the header before the first block; decompression emits
\* when it has seen the end of the stream.
Transform ==
    /\ codec.pending # <<>>
    /\ out.state = "readable"
    /\ out.q = <<>>
    /\ Demand
    /\ LET chunk == Head(codec.pending)
           block == (IF codec.acc = <<>> THEN Header(codec.format) ELSE <<>>)
                        \o EncodeBody(chunk)
       IN /\ codec' = [codec EXCEPT !.pending = <<>>, !.acc = Append(@, chunk)]
          /\ out' = IF codec.method = "compress"
                    THEN [out EXCEPT !.q = Enqueue(@, block)]
                    ELSE out
    /\ UNCHANGED <<pc, call, signal, src, pipe, consumer, promise, thrown, prev, file, other>>

\* The source is closed and drained: the pipe closes the codec, which flushes.
PipeClose ==
    /\ pipe.active
    /\ src.state = "readable"
    /\ src.q = <<>>
    /\ src.done
    /\ codec.pending = <<>>
    /\ pipe' = [pipe EXCEPT !.active = FALSE]
    /\ src' = [src EXCEPT !.state = "closed", !.locked = FALSE]
    /\ LET tail == (IF codec.acc = <<>> THEN Header(codec.format) ELSE <<>>)
                       \o EndOfStream \o Trailer(codec.format, Concat(codec.acc))
           r == Decode(codec.format, Concat(codec.acc))
       IN out' = IF codec.method = "compress"
                 THEN [out EXCEPT !.q = Enqueue(@, tail), !.ended = TRUE]
                 ELSE IF r.ok
                 THEN [out EXCEPT !.q = Enqueue(@, r.data), !.ended = TRUE]
                 ELSE Errored(r.err)
    /\ UNCHANGED <<pc, call, signal, codec, consumer, promise, thrown, prev, file, other>>

\* The source is errored: the pipe aborts the codec with the source's error.
PipeError ==
    /\ pipe.active
    /\ src.state = "errored"
    /\ pipe' = [pipe EXCEPT !.active = FALSE]
    /\ src' = [src EXCEPT !.locked = FALSE]
    /\ codec' = [codec EXCEPT !.pending = <<>>]
    /\ out' = Errored(src.err)
    /\ UNCHANGED <<pc, call, signal, consumer, promise, thrown, prev, file, other>>

\* The signal is aborted while an operation runs.  A pipe that was given the
\* signal shuts down: the source is cancelled, the codec aborted.
Abort ==
    /\ signal = "live"
    /\ pc \in {"file", "oneshot", "stream"}
    /\ signal' = "aborted"
    /\ IF pipe.active /\ pipe.signalled
       THEN /\ pipe' = [pipe EXCEPT !.active = FALSE]
            /\ src' = [src EXCEPT !.state = "cancelled", !.q = <<>>]
            /\ codec' = [codec EXCEPT !.pending = <<>>]
            /\ out' = Errored(AbortReason)
       ELSE UNCHANGED <<pipe, src, codec, out>>
    /\ UNCHANGED <<pc, call, consumer, promise, thrown, prev, file, other>>

\* ------------------------------------------------------------ the consumer
\* The caller asks the stream it was handed for a chunk.
CallerPull ==
    /\ consumer.kind = "caller"
    /\ ~consumer.demand
    /\ out.state = "readable"
    /\ ~(out.ended /\ out.q = <<>>)
    /\ consumer' = [consumer EXCEPT !.demand = TRUE]
    /\ UNCHANGED <<pc, call, signal, src, codec, pipe, out, promise, thrown, prev, file, other>>

\* The caller cancels the stream a streaming form returned: the codec's
\* readable side is closed, and the pipe shuts down and cancels the source.
CancelOutput ==
    /\ pc = "stream"
    /\ consumer.kind = "caller"
    /\ out.state = "readable"
    /\ ~(out.ended /\ out.q = <<>>)
    /\ out' = [out EXCEPT !.state = "cancelled", !.q = <<>>]
    /\ consumer' = [consumer EXCEPT !.demand = FALSE]
    /\ IF pipe.active
       THEN /\ pipe' = [pipe EXCEPT !.active = FALSE]
            /\ src' = IF src.state = "readable"
                      THEN [src EXCEPT !.state = "cancelled", !.q = <<>>]
                      ELSE src
            /\ codec' = [codec EXCEPT !.pending = <<>>]
       ELSE UNCHANGED <<pipe, src, codec>>
    /\ UNCHANGED <<pc, call, signal, promise, thrown, prev, file, other>>

\* A queued chunk is handed to the consumer.
Deliver ==
    /\ out.state = "readable"
    /\ out.q # <<>>
    /\ Demand
    /\ out' = [out EXCEPT !.q = Tail(@)]
    /\ consumer' = [consumer EXCEPT !.got = @ \o Head(out.q),
                                    !.demand = (consumer.kind = "materializer")]
    /\ UNCHANGED <<pc, call, signal, src, codec, pipe, promise, thrown, prev, file, other>>

\* The Response has read the stream to its end, or met its error: the
\* promise settles.
Settle ==
    /\ consumer.kind = "materializer"
    /\ promise.state = "pending"
    /\ \/ /\ out.state = "errored"
          /\ promise' = Rejected(out.err)
       \/ /\ out.state = "readable"
          /\ out.ended
          /\ out.q = <<>>
          /\ promise' = Fulfilled(Materialize(consumer.output, consumer.got, consumer.type))
    /\ UNCHANGED <<pc, call, signal, src, codec, pipe, out, consumer, thrown, prev, file, other>>

Next ==
    \/ Compress \/ Decompress \/ Gzip \/ Gunzip
    \/ Deflate \/ DeflateRaw \/ Inflate \/ InflateRaw
    \/ CompressStream \/ DecompressStream \/ GzipStream \/ GunzipStream
    \/ DeflateStream \/ DeflateRawStream \/ InflateStream \/ InflateRawStream
    \/ StreamFile \/ FileOpen \/ FileOpenFail \/ FileRead \/ FileFail \/ FileEnd
    \/ FileAbort \/ CancelFile
    \/ PipeRead \/ Transform \/ PipeClose \/ PipeError \/ Abort
    \/ CallerPull \/ CancelOutput \/ Deliver \/ Settle

Spec == Init /\ [][Next]_vars

\* Two operations at once.  Each call of _transform holds what it made in
\* local variables; between the steps of one operation the event loop may
\* turn to the other one.
PairInputs ==
    {Input("ReadableStream", <<0, 1>>, 1, TRUE),
     Input("Uint8Array", <<1, 1>>, 0, TRUE),
     Input("ReadableStream", Encode(GZIP, <<<<0, 1>>>>), Len(Header(GZIP)), TRUE)}
PairOptions == {Options(f, o, Undefined) : f \in {GZIP, DEFLATE}, o \in {"bytes", "stream"}}
PairArguments == IF pc = "idle" THEN PairInputs ELSE {}
CompressBeside ==
    \E data \in PairArguments, o \in PairOptions :
        Invoke("compress", data, o, compress(data, o))
DecompressBeside ==
    \E data \in PairArguments, o \in PairOptions :
        Invoke("decompress", data, o, decompress(data, o))

\* The turn in which the two operations come to share one codec.
SwitchSharingCodec ==
    /\ other' = Operation(pc, call, src, codec, pipe, out, consumer, promise)
    /\ pc' = other.pc
    /\ call' = other.call
    /\ src' = other.src
    /\ pipe' = other.pipe
    /\ out' = other.out
    /\ consumer' = other.consumer
    /\ promise' = other.promise
    /\ UNCHANGED <<codec, signal, thrown, prev, file>>

\* The event loop turns from one operation to the other.
Switch ==
    /\ other' = Operation(pc, call, src, codec, pipe, out, consumer, promise)
    /\ pc' = other.pc
    /\ call' = other.call
    /\ src' = other.src
    /\ codec' = other.codec
    /\ pipe' = other.pipe
    /\ out' = other.out
    /\ consumer' = other.consumer
    /\ promise' = other.promise
    /\ UNCHANGED <<signal, thrown, prev, file>>

\* An object given to a second operation after a first one took it.
StreamKinds == {"ReadableStream", "Request", "Response"}
GivenAgain ==
    IF pc = "oneshot" /\ call.data.used = "fresh"
    THEN {[call.data EXCEPT !.used = IF call.data.kind \in StreamKinds
                                     THEN (IF src.locked THEN "locked" ELSE "closed")
                                     ELSE "again"]}
    ELSE {}
ReuseInputs ==
    PairInputs \cup {Input("Response", <<0, 1>>, 0, TRUE), Input("Blob", <<1>>, 0, TRUE),
                     Input("string", <<65>>, 0, TRUE)}
ReuseArguments == IF pc = "idle" THEN ReuseInputs ELSE GivenAgain
CompressAgain ==
    \E data \in ReuseArguments, o \in PairOptions :
        Invoke("compress", data, o, compress(data, o))
DecompressAgain ==
    \E data \in ReuseArguments, o \in PairOptions :
        Invoke("decompress", data, o, decompress(data, o))
ReuseNext ==
    \/ CompressAgain \/ DecompressAgain
    \/ PipeRead \/ Transform \/ PipeClose
    \/ CallerPull \/ Deliver \/ Settle
ReuseSpec == Init /\ [][ReuseNext]_vars

PairNext ==
    \/ CompressBeside \/ DecompressBeside \/ Switch
    \/ PipeRead \/ Transform \/ PipeClose
    \/ CallerPull \/ Deliver \/ Settle
PairSpec == Init /\ [][PairNext]_vars

\* ------------------------------------------------- how a call fails
\* null given for the options of a call.
Null == [null |-> TRUE]
\* The one-shot functions declared async; decompress, gunzip, inflate and
\* inflateRaw are plain functions that return the promise of _transform.
AsyncOpsWithoutCompress == {"gzip", "deflate", "deflateRaw"}
AsyncOps == {"compress", "gzip", "deflate", "deflateRaw"}
\* Data a call may fail on: a number, an array, a stream the caller has a
\* reader on; and data it need not fail on.
CallInputs ==
    PairInputs
    \cup {Input("number", <<>>, 0, FALSE), Input("array", <<>>, 0, FALSE),
          [Input("ReadableStream", <<0, 1>>, 0, TRUE) EXCEPT !.used = "locked"]}
\* A call of a one-shot function.  Its parameter { output, format, signal } = {}
\* is bound first: the default stands in for undefined alone, and null has no
\* property to read, which is a TypeError.  An async function turns what is
\* thrown in it, the binding of its parameters included, into the rejection of
\* the promise it returns; a plain function throws it to the caller.  With the
\* parameter bound the call is _transform's, result the outcome of it.
Call(op, data, o, result) ==
    /\ pc = "idle"
    /\ IF o # Null
       THEN Invoke(op, data, o, result)
       ELSE /\ call' = [op |-> op, data |-> data, path |-> NoPath, node |-> TRUE,
                        options |-> Null]
            /\ IF op \in AsyncOps
               THEN /\ promise' = Rejected(TypeError("Cannot destructure null"))
                    /\ pc' = "oneshot"
                    /\ UNCHANGED thrown
               ELSE /\ thrown' = TypeError("Cannot destructure null")
                    /\ pc' = "threw"
                    /\ UNCHANGED promise
            /\ UNCHANGED <<signal, src, codec, pipe, out, consumer, prev, file, other>>

CompressCall ==
    \E data \in CallInputs, o \in GenericOptions \cup {Null} :
        Call("compress", data, o, compress(data, o))
DecompressCall ==
    \E data \in CallInputs, o \in GenericOptions \cup {Null} :
        Call("decompress", data, o, decompress(data, o))
GzipCall ==
    \E data \in CallInputs, o \in NamedOptions \cup {Null} :
        Call("gzip", data, o, gzip(data, o))
GunzipCall ==
    \E data \in CallInputs, o \in NamedOptions \cup {Null} :
        Call("gunzip", data, o, gunzip(data, o))
DeflateCall ==
    \E data \in CallInputs, o \in NamedOptions \cup {Null} :
        Call("deflate", data, o, deflate(data, o))
DeflateRawCall ==
    \E data \in CallInputs, o \in NamedOptions \cup {Null} :
        Call("deflateRaw", data, o, deflateRaw(data, o))
InflateCall ==
    \E data \in CallInputs, o \in NamedOptions \cup {Null} :
        Call("inflate", data, o, inflate(data, o))
InflateRawCall ==
    \E data \in CallInputs, o \in NamedOptions \cup {Null} :
        Call("inflateRaw", data, o, inflateRaw(data, o))
CallNext ==
    \/ CompressCall \/ DecompressCall \/ GzipCall \/ GunzipCall
    \/ DeflateCall \/ DeflateRawCall \/ InflateCall \/ InflateRawCall
    \/ PipeRead \/ Transform \/ PipeClose \/ Abort
    \/ CallerPull \/ Deliver \/ Settle
CallSpec == Init /\ [][CallNext]_vars

\* A file streamed through the streaming forms.  Once createReadStream has
\* been called node goes on reading the file, whatever the consumer does: the
\* steps of start() are taken when they can be.
FileNext ==
    \/ StreamFile \/ FileOpen \/ FileOpenFail \/ FileRead \/ FileFail \/ FileEnd
    \/ FileAbort \/ CancelFile
    \/ CompressStream \/ DecompressStream \/ GzipStream \/ GunzipStream
    \/ DeflateStream \/ DeflateRawStream \/ InflateStream \/ InflateRawStream
    \/ PipeRead \/ Transform \/ PipeClose \/ PipeError \/ Abort
    \/ CallerPull \/ CancelOutput \/ Deliver
FileSpec ==
    /\ Init
    /\ [][FileNext]_vars
    /\ WF_vars(FileOpen)
    /\ WF_vars(FileRead)
    /\ WF_vars(FileEnd)
    /\ WF_vars(FileAbort)
\* ------------------------------------------------------------------ claims
OneShotOps ==
    {"compress", "decompress", "gzip", "gunzip", "deflate", "inflate",
     "deflateRaw", "inflateRaw"}
StreamOps ==
    {"compressStream", "decompressStream", "gzipStream", "gunzipStream",
     "deflateStream", "inflateStream", "deflateRawStream", "inflateRawStream"}
\* The selector a call asks for.
RequestedOutput(c) == IF c.options.output = Undefined THEN "blob" ELSE c.options.output
\* The selectors whose result is the transformed bytes themselves.
ByteOutputs == {"blob", "buffer", "bytes", "url"}
\* The decompression at hand was given the result of a compression of
\* prev.bytes, asks for the format of that compression, and its signal (if
\* any) is not aborted.
RoundTripCase ==
    /\ prev.chained
    /\ ~prev.tampered
    /\ call.op \in OneShotOps
    /\ RequestedFormat(call) = prev.format
    /\ signal # "aborted"

\* C1: round trip.  When the result of compressing an input that carries the
\* bytes b (in any supported representation, a string by its UTF-8 bytes) in
\* format f is decompressed in format f, decoding never fails, the bytes the
\* consumer has read are b once the stream has ended, and with a selector
\* that returns the bytes the promise is never rejected and is fulfilled with
\* exactly b.
C1_RoundTrip ==
    RoundTripCase =>
        /\ out.state # "errored"
        /\ (out.ended /\ out.q = <<>>) => consumer.got = prev.bytes
        /\ RequestedOutput(call) \in ByteOutputs =>
               /\ promise.state # "rejected"
               /\ promise.state = "fulfilled" => promise.value.content = prev.bytes
C1_Witness ==
    /\ RoundTripCase
    /\ prev.format = DEFLATE
    /\ call.op = "inflate"
    /\ prev.bytes = <<195, 169>>
    /\ promise.state = "fulfilled"
    /\ promise.value = Value("Blob", <<195, 169>>, DEFAULT_TYPE)

\* The signal passed to the call was already aborted.
PreAborted == call.options.signal = "aborted"
\* streamFile runs in node and its path is a string or URL that names a file.
FilePathOk == call.node /\ call.path.type \in {"string", "URL"} /\ call.path.protocol = "file:"

\* C2 as stated: a streaming form or streamFile called with an aborted signal
\* throws the signal's reason synchronously, returns no stream, reads no chunk
\* from the source and opens no file.
C2_Original ==
    (call.op \in StreamOps \cup {"streamFile"} /\ PreAborted) =>
        /\ pc = "threw"
        /\ thrown = AbortReason
        /\ ~pipe.set
        /\ src.pulled = 0
        /\ (call.op = "streamFile" => file.opened = 0)

\* C2 (amended): a streaming form called with an aborted signal throws the
\* signal's reason synchronously; no codec is made, the source is neither
\* locked nor read.  streamFile called with an aborted signal throws
\* synchronously, returns no stream and opens no file; what it throws is the
\* signal's reason when it runs in node and the path names a file, and else
\* the error of the environment or path check, which comes first.
C2_PreCheckedCancellation ==
    /\ (call.op \in StreamOps /\ PreAborted) =>
           /\ pc = "threw"
           /\ thrown = AbortReason
           /\ ~pipe.set
           /\ ~codec.created
           /\ ~src.locked
           /\ src.pulled = 0
    /\ (call.op = "streamFile" /\ PreAborted) =>
           /\ pc = "threw"
           /\ src = NoStream
           /\ file = NoFile
           /\ IF FilePathOk THEN thrown = AbortReason
              ELSE thrown.name \in {"Error", "TypeError"}
C2_Witness ==
    /\ call.op = "gzipStream"
    /\ PreAborted
    /\ thrown = AbortReason
    /\ Len(src.q) = 2
    /\ src.pulled = 0

\* C3: a one-shot operation given a primitive that is no string, or an object
\* of no recognized kind, is rejected with the TypeError of toStream, and
\* nothing else has happened: no codec was made, no pipe set up, no chunk
\* produced.
C3_InvalidInputFailsFast ==
    (call.op \in OneShotOps /\ call.data \in InvalidInputs) =>
        /\ promise = Rejected(TypeError(IF call.data.kind \in PrimitiveKinds
                                        THEN "Invalid input type"
                                        ELSE "Unsupported input type"))
        /\ ~codec.created
        /\ ~pipe.set
        /\ src = NoStream
        /\ out = NoOut
        /\ consumer = NoConsumer
C3_Witness ==
    /\ call.op = "gzip"
    /\ call.data.kind = "array"
    /\ promise = Rejected(TypeError("Unsupported input type"))
    /\ ~codec.created

\* C4 as stated: a one-shot operation on a valid input with an aborted signal
\* never fulfils its promise.
C4_Original ==
    (call.op \in OneShotOps /\ PreAborted /\ call.data \notin InvalidInputs) =>
        promise.state # "fulfilled"

\* C4 (amended): a one-shot operation on a valid input with an aborted signal
\* hands the caller no data: nothing is read from the source and the codec
\* emits nothing.  With every selector but 'stream' and 'response' the promise
\* is never fulfilled, and it is rejected with the signal's reason once the
\* Response has read the errored stream; with 'stream' and 'response' the
\* promise is fulfilled with a stream or Response whose stream is errored
\* with the signal's reason.
C4_OneShotCancellation ==
    (call.op \in OneShotOps /\ PreAborted /\ call.data \notin InvalidInputs) =>
        /\ consumer.got = <<>>
        /\ src.pulled = 0
        /\ codec.acc = <<>>
        /\ out = Errored(AbortReason)
        /\ IF RequestedOutput(call) \in {"stream", "response"}
           THEN /\ promise.state = "fulfilled"
                /\ promise.value.kind \in {"ReadableStream", "Response"}
           ELSE /\ promise.state # "fulfilled"
                /\ (promise.state = "rejected" /\ consumer.kind = "materializer")
                       => promise.error = AbortReason
C4_Witness ==
    /\ call.op = "gunzip"
    /\ prev.chained
    /\ PreAborted
    /\ promise = Rejected(AbortReason)

\* C5 as stated: with a documented selector, a valid input and no abort, a
\* compression (or the decompression of its result in the same format) is
\* never rejected.
C5_Original ==
    ( /\ call.op \in OneShotOps
      /\ RequestedOutput(call) \in DocumentedOutputs
      /\ signal # "aborted"
      /\ \/ /\ call.op \in {"compress", "gzip", "deflate", "deflateRaw"}
            /\ call.data \in ValidInputs
         \/ RoundTripCase )
    => promise.state # "rejected"

UnsupportedOutputRaised == promise = Rejected(TypeError("Unsupported output"))

\* C6 as stated: when the unsupported-output error is raised the input source
\* has not been locked or piped into a codec, and no chunk has been read from
\* it.
C6_Original ==
    UnsupportedOutputRaised =>
        /\ ~src.locked
        /\ ~pipe.set
        /\ ~codec.created
        /\ src.pulled = 0

\* C6 (amended): the unsupported-output error is raised before any of the
\* transformed output is consumed (no Response reads the codec's readable
\* side, nothing has been handed to a consumer); but by then the input has
\* been converted, the codec made and the source piped into it, and the
\* source stays locked for as long as the pipe runs.
C6_UnknownSelector ==
    UnsupportedOutputRaised =>
        /\ consumer = NoConsumer
        /\ codec.created
        /\ pipe.set
        /\ src.state # "none"
        /\ pipe.active => src.locked
C6_Witness ==
    /\ UnsupportedOutputRaised
    /\ call.data.kind = "ReadableStream"
    /\ src.locked
    /\ src.pulled = 1

\* C7 as stated: once the signal a streaming form was given is aborted after
\* the call returned, no further chunk is read from the source and no further
\* chunk is emitted.
C7_Original ==
    [][(pc = "stream" /\ call.options.signal = "live" /\ signal = "aborted")
          => (src'.pulled = src.pulled /\ Len(out'.q) <= Len(out.q))]_vars

\* The chunks held between the file and the consumer.
BufferedChunks == Len(src.q) + Len(codec.pending) + Len(out.q)
\* One chunk each in the file's stream, in the codec's writable side and in
\* its readable side.
BufferBound == 3 * HighWaterMark

\* C8 as stated: while a file is streamed through a streaming form, the
\* chunks buffered between the file and the consumer stay within a bound that
\* does not depend on the size of the file.
C8_Original ==
    (pc = "stream" /\ call.data = FileStream) => BufferedChunks <= BufferBound

\* The representations toStream is defined for.
DefinedRepresentation(d) ==
    \/ d.kind \in {"string", "ArrayBuffer", "Uint8Array", "Buffer", "Blob", "ReadableStream"}
    \/ d.kind \in MessageKinds /\ d.body

\* C9: a one-shot operation given an object outside the defined
\* representations is rejected with the unsupported-input TypeError and makes
\* no codec; so are a DataView and a Uint16Array, which have a .buffer.
C9_ClosedInputSet ==
    ( /\ call.op \in OneShotOps
      /\ typeof(call.data) = "object"
      /\ ~DefinedRepresentation(call.data) )
    => /\ promise = Rejected(TypeError("Unsupported input type"))
       /\ ~codec.created
       /\ src = NoStream
C9_Witness ==
    /\ call.op = "compress"
    /\ call.data = Input("DataView", <<0, 1>>, 0, FALSE)
    /\ promise = Rejected(TypeError("Unsupported input type"))

\* C10: compress and decompress called without a format use gzip, and every
\* one-shot operation called without an output (or with undefined) reads the
\* result into a Blob of the default type: the promise, when fulfilled, holds
\* a Blob.
C10_Defaults ==
    /\ ( /\ call.op \in {"compress", "decompress"}
         /\ call.options.format = Undefined
         /\ codec.created )
       => codec.format = GZIP
    /\ ( /\ call.op \in OneShotOps
         /\ call.options.output = Undefined
         /\ call.data \notin InvalidInputs )
       => /\ consumer.kind = "materializer"
          /\ consumer.output = "blob"
          /\ consumer.type = DEFAULT_TYPE
          /\ promise.state = "fulfilled" => promise.value.kind = "Blob"
C10_Witness ==
    /\ call.op = "decompress"
    /\ call.options = Options(Undefined, Undefined, Undefined)
    /\ prev.chained
    /\ prev.bytes = <<0, 0>>
    /\ promise = Fulfilled(Value("Blob", <<0, 0>>, DEFAULT_TYPE))

CompressOps == {"compress", "gzip", "deflate", "deflateRaw"}
CompressStreamOps == {"compressStream", "gzipStream", "deflateStream", "deflateRawStream"}
\* The codec's readable side was read to its end.
Finished == out.state = "readable" /\ out.ended /\ out.q = <<>>

DecompressOps == {"decompress", "gunzip", "inflate", "inflateRaw"}
\* A decompression was given gzip or zlib data with one byte of its checksum
\* changed, and asks for the format of the data.
TamperedCase ==
    /\ prev.chained
    /\ prev.tampered
    /\ prev.format \in {GZIP, DEFLATE}
    /\ call.op \in DecompressOps
    /\ RequestedFormat(call) = prev.format

C13_Original ==
    ( /\ call.op \in OneShotOps
      /\ RequestedOutput(call) = "response"
      /\ promise.state = "fulfilled" )
    => /\ promise.value.kind = "Response"
       /\ promise.value.type = DEFAULT_TYPE

\* C14: release of the file.  A file streamFile has opened is closed in the
\* end, whatever happens to the stream (read to the end, a failed read, the
\* signal aborted, the stream cancelled by the consumer), and it is closed
\* once.
C14_FileReleased ==
    /\ [](file.closed <= file.opened /\ file.opened <= 1)
    /\ (file.opened = 1) ~> (file.closed = 1)
C14_Witness ==
    /\ file.opened = 1
    /\ file.closed = 1
    /\ file.remaining # <<>>
    /\ out.state = "cancelled"
    /\ src.state = "cancelled"

\* C15: source errors are not masked.  When the open or a read of the file
\* has failed, the stream streamFile returned (unless the consumer had
\* cancelled it) is errored with that very error, not closed; and the stream
\* a streaming form made of it never ends normally and, once errored, holds
\* that same error.
C15_SourceErrorKept ==
    (file.err = ReadError /\ src.state # "cancelled") =>
        /\ src.state = "errored"
        /\ src.err = ReadError
        /\ ~src.done
        /\ ~Finished
        /\ out.state = "errored" => out.err = ReadError
C15_Witness ==
    /\ file.err = ReadError
    /\ file.closed = 1
    /\ src.state = "errored"
    /\ out = Errored(ReadError)
    /\ consumer.got # <<>>

\* What an operation gives when it runs alone: the encoding of the chunks of
\* its input, or what the decoder makes of its bytes.
Alone(c) ==
    LET chunks == toStream(c.data).stream.q
    IN IF c.op = "compress"
       THEN [ok |-> TRUE, data |-> Encode(RequestedFormat(c), chunks), err |-> NoError]
       ELSE Decode(RequestedFormat(c), Concat(chunks))
\* An operation is where it would be had it run alone: what its consumer has
\* got so far begins the result, a stream read to the end or a fulfilled
\* promise holds the whole result, and an error is the one it would have met.
AsAlone(o) ==
    LET e == Alone(o.call)
    IN /\ e.ok => IsPrefix(o.consumer.got, e.data)
       /\ (o.out.state = "readable" /\ o.out.ended /\ o.out.q = <<>>) =>
              e.ok /\ o.consumer.got = e.data
       /\ o.out.state = "errored" => ~e.ok /\ o.out.err = e.err
       /\ (o.promise.state = "fulfilled" /\ o.consumer.kind = "materializer") =>
              e.ok /\ o.promise.value.content = e.data
       /\ o.promise.state = "rejected" => ~e.ok /\ o.promise.error = e.err

\* C16: independent operations.  Of two operations whose steps interleave in
\* any way, each is at every moment where it would be had it run alone.
C16_IndependentOperations ==
    /\ pc = "oneshot" =>
           AsAlone(Operation(pc, call, src, codec, pipe, out, consumer, promise))
    /\ other.pc = "oneshot" => AsAlone(other)
C16_Witness ==
    /\ pc = "oneshot"
    /\ other.pc = "oneshot"
    /\ call.op = "compress"
    /\ other.call.op = "decompress"
    /\ codec.format # other.codec.format
    /\ src.pulled = 1 /\ src.q # <<>>
    /\ other.src.pulled = 1 /\ other.src.q # <<>>
    /\ consumer.got # <<>>

NamedOps == (OneShotOps \cup StreamOps)
                \ {"compress", "decompress", "compressStream", "decompressStream"}
\* The options of a call with the format of the function's name put in.
WithNamedFormat(c) ==
    Options(RequestedFormat(c), c.options.output, c.options.signal)
\* What the generic operation gives for the data and options of a call.
GenericOneShot(c) ==
    IF c.op \in CompressOps
    THEN compress(c.data, WithNamedFormat(c))
    ELSE decompress(c.data, WithNamedFormat(c))
GenericStream(c, stream) ==
    IF c.op \in CompressStreamOps
    THEN compressStream(stream, WithNamedFormat(c))
    ELSE decompressStream(stream, WithNamedFormat(c))

InMemoryKinds == {"ArrayBuffer", "Uint8Array", "Buffer", "string"}
\* A one-shot operation on a buffer, typed array or string whose pipe has not
\* been shut down.
InMemoryCase ==
    /\ pc = "oneshot"
    /\ call.data.kind \in InMemoryKinds
    /\ codec.created
    /\ signal # "aborted"
\* A bound on the size of a chunk that does not grow with the input: one
\* below the size of the largest input.
ChunkBound == MaxLen - 1
\* The chunks of the source: those the codec has taken, the one written to it,
\* and those still queued.
SourceChunks == codec.acc \o codec.pending \o src.q

ViewCase ==
    /\ pc = "oneshot"
    /\ call.data.kind \in {"Uint8Array", "Buffer"}
    /\ call.data.buffer # call.data.content
    /\ ~prev.chained
    /\ codec.created
    /\ signal # "aborted"

\* C19: view-exact bytes.  Of a Uint8Array or Buffer that is a view of a part
\* of a larger buffer, the bytes of the view and no others enter the
\* pipeline, and what a compression makes of it decompresses to the bytes of
\* the view.
C19_ViewExact ==
    ViewCase =>
        /\ Concat(SourceChunks) = call.data.content
        /\ (call.op \in CompressOps /\ Finished) =>
               LET r == Decode(RequestedFormat(call), consumer.got)
               IN r.ok /\ r.data = call.data.content
C19_Witness ==
    /\ ViewCase
    /\ call.op = "gzip"
    /\ call.data = View("Buffer", <<0, 1>>, 1, 1)
    /\ Finished
    /\ consumer.got = Encode(GZIP, <<<<1>>>>)

\* A one-shot operation was given an object an earlier operation had taken.
SecondOperation == pc = "oneshot" /\ call.data.used # "fresh"

\* C20 as stated: an operation started on a stream (or the body of a Request
\* or Response) that an earlier operation took fails.
C20_Original ==
    (SecondOperation /\ call.data.kind \in StreamKinds) =>
        /\ promise.state # "fulfilled"
        /\ ~Finished

\* C20 (amended): a stream given to an operation is locked while the
\* operation's pipe runs: an operation started on it meanwhile is rejected
\* with the TypeError of pipeThrough, sets up no pipe and reads no chunk.  Once
\* the first pipe has read the stream to its end and released it, an
\* operation started on it is not rejected at the call: it finds the stream
\* closed, reads no chunk and works on empty input (a compression ends with
\* the encoding of no bytes, a decompression with the decoder's error).  In
\* both cases no chunk of the stream reaches the second operation.  A buffer,
\* typed array, Blob or string given again gives what it gives alone.
C20_SingleConsumption ==
    SecondOperation =>
        /\ call.data.used = "locked" =>
               /\ promise = Rejected(TypeError("ReadableStream is locked"))
               /\ ~pipe.set
               /\ src.pulled = 0
               /\ consumer.got = <<>>
        /\ call.data.used = "closed" =>
               /\ src.pulled = 0
               /\ codec.acc = <<>>
               /\ promise.state = "rejected" => call.op = "decompress"
               /\ (call.op = "compress" /\ Finished) =>
                      consumer.got = Encode(RequestedFormat(call), <<>>)
               /\ call.op = "decompress" => ~Finished
        /\ call.data.used = "again" =>
               AsAlone(Operation(pc, call, src, codec, pipe, out, consumer, promise))
C20_Witness ==
    /\ SecondOperation
    /\ call.data.kind = "Response"
    /\ call.data.used = "closed"
    /\ call.op = "compress"
    /\ src.pulled = 0
    /\ promise.state = "fulfilled"
    /\ promise.value.content = Encode(GZIP, <<>>)

\* A one-shot function was called with an options object, or with none.
OptionsBound == pc # "idle" /\ call.op \in OneShotOps /\ call.options # Null
\* The failures of a call: data of no kind toStream takes, a stream that is
\* locked, a selector fromStream does not know, a signal aborted beforehand.
InvalidInputCase == OptionsBound /\ call.data \in InvalidInputs
LockedStreamCase ==
    OptionsBound /\ call.data \notin InvalidInputs /\ call.data.used = "locked"
UnsupportedOutputCase ==
    /\ OptionsBound
    /\ call.data \notin InvalidInputs
    /\ call.data.used # "locked"
    /\ RequestedOutput(call) \notin DocumentedOutputs
AbortedCase ==
    /\ OptionsBound
    /\ call.data \notin InvalidInputs
    /\ call.data.used # "locked"
    /\ RequestedOutput(call) \in DocumentedOutputs
    /\ PreAborted

\* C21 as stated: a one-shot operation that fails (invalid input, unsupported
\* output, aborted signal, locked stream) throws nothing to its caller, and
\* its promise is never fulfilled: the failure is the promise's rejection.
C21_Original ==
    (InvalidInputCase \/ LockedStreamCase \/ UnsupportedOutputCase \/ AbortedCase) =>
        /\ pc # "threw"
        /\ thrown = NoError
        /\ promise.state # "fulfilled"

\* C21 (amended): a one-shot operation called with an options object (or with
\* none) throws nothing to its caller, whether it is declared async or not.
\* Invalid input, a locked stream and an unsupported output are delivered as
\* the rejection of the returned promise, with the TypeError of each.  An
\* aborted signal is delivered as a rejection with every selector but 'stream'
\* and 'response'; with these two the promise is fulfilled, with a stream or
\* Response whose stream is errored with the signal's reason.  Called with
\* null for its options, compress, gzip, deflate and deflateRaw reject with
\* the TypeError of reading a property of null, and decompress, gunzip,
\* inflate and inflateRaw throw it synchronously and return no promise.
C21_ErrorDelivery ==
    /\ OptionsBound => (pc = "oneshot" /\ thrown = NoError)
    /\ InvalidInputCase =>
           promise = Rejected(TypeError(IF call.data.kind \in PrimitiveKinds
                                        THEN "Invalid input type"
                                        ELSE "Unsupported input type"))
    /\ LockedStreamCase => promise = Rejected(TypeError("ReadableStream is locked"))
    /\ UnsupportedOutputCase => promise = Rejected(TypeError("Unsupported output"))
    /\ AbortedCase =>
           IF RequestedOutput(call) \in {"stream", "response"}
           THEN /\ promise.state = "fulfilled"
                /\ promise.value.kind \in {"ReadableStream", "Response"}
                /\ out = Errored(AbortReason)
           ELSE /\ promise.state # "fulfilled"
                /\ (promise.state = "rejected" /\ consumer.kind = "materializer")
                       => promise.error = AbortReason
    /\ (pc # "idle" /\ call.op \in OneShotOps /\ call.options = Null) =>
           IF call.op \in {"compress", "gzip", "deflate", "deflateRaw"}
           THEN /\ pc = "oneshot"
                /\ thrown = NoError
                /\ promise.state = "rejected"
                /\ promise.error.name = "TypeError"
           ELSE /\ pc = "threw"
                /\ thrown.name = "TypeError"
                /\ promise = NoPromise
C21_Witness ==
    /\ call.op = "inflate"
    /\ LockedStreamCase
    /\ pc = "oneshot"
    /\ thrown = NoError
    /\ promise = Rejected(TypeError("ReadableStream is locked"))
    /\ src.locked
    /\ src.pulled = 0

====
